---- MODULE Spec2Model ----
(***************************************************************************)
(* The data-cleaning and metric-derivation pipeline of                     *)
(* covid19_global_tracker.ipynb, one action per notebook cell.             *)
(*                                                                         *)
(* The notebook's cells are run in order in one kernel.  A cell that       *)
(* raises stops at the raising statement: the names it had assigned so far *)
(* stay in the kernel namespace, the others stay undefined, and the next   *)
(* cell is still run (it raises NameError when it reads an undefined       *)
(* name).                                                                  *)
(*                                                                         *)
(* A DataFrame is [columns |-> set of column names, rows |-> sequence of   *)
(* rows]; a row is a function from the columns and "index" (the pandas row *)
(* label) to cell values.  A numeric cell is a float <<num, den>> kept in  *)
(* lowest terms: <<n, 1>> is the number n, <<0, 0>> is NaN (pandas' missing *)
(* value) and <<1, 0>> is +inf.  Dates are day ordinals held the same way. *)
(***************************************************************************)
EXTENDS Integers, Sequences, FiniteSets, TLC

\* ------------------------------------------------------------------ bounds
\* Longest table of the short family (every cell value varies).
MaxShort == 2
\* Longest table of the long family (one entity's series, 7 rows or more).
MaxLong == 8

\* Most columns a one-row table of the column family may lack.
MaxDropped == 2

\* ------------------------------------------------------------------ program constants
\* rolling(window=7)
WINDOW == 7

\* ------------------------------------------------------------------ floats
NaN == <<0, 0>>

Inf == <<1, 0>>

Num(n) == <<n, 1>>

IsNaN(x) == x = NaN

RECURSIVE GCD(_, _)
GCD(a, b) == IF b = 0 THEN a ELSE GCD(b, a % b)

\* The float with value n / d, for n >= 0 and d > 0.
Frac(n, d) == LET g == GCD(n, d) IN <<n \div g, d \div g>>

\* x / y on float64 columns (numpy true division): NaN propagates, 0/0 is
\* NaN, x/0 is inf for x > 0, x/inf is 0, and no exception is raised.
FloatDiv(x, y) ==
    IF IsNaN(x) \/ IsNaN(y) THEN NaN
    ELSE IF y[2] = 0 THEN (IF x[2] = 0 THEN NaN ELSE Num(0))
    ELSE IF y[1] = 0 THEN (IF x[1] = 0 THEN NaN ELSE Inf)
    ELSE IF x[2] = 0 THEN Inf
    ELSE Frac(x[1] * y[2], x[2] * y[1])

\* x * k for an integer k > 0.
FloatScale(x, k) ==
    IF x[2] = 0 THEN x ELSE Frac(x[1] * k, x[2])

\* ------------------------------------------------------------------ frames
BaseColumns ==
    {"location", "date", "total_cases", "total_deaths", "new_cases",
     "new_deaths", "total_vaccinations", "people_vaccinated",
     "people_fully_vaccinated", "population"}

\* The name a variable holds before it is assigned, and pd.DataFrame().
NoFrame == [columns |-> {}, rows |-> <<>>]

\* pd.read_csv: the parsed rows under a RangeIndex 0..n-1.
ReadCsv(cols, rs) ==
    [columns |-> cols,
     rows |-> [i \in 1..Len(rs) |->
                 [c \in cols \cup {"index"} |->
                     IF c = "index" THEN i - 1 ELSE rs[i][c]]]]

\* The positions up to n at which the boolean mask is true, in order.
RECURSIVE SelectIdx(_, _)
SelectIdx(mask, n) ==
    IF n = 0 THEN <<>>
    ELSE IF mask[n] THEN Append(SelectIdx(mask, n - 1), n)
    ELSE SelectIdx(mask, n - 1)

\* df[mask]: the rows whose mask is true, in the frame's order, with their
\* index labels and all columns.
BoolIndex(t, mask) ==
    LET idx == SelectIdx(mask, Len(t.rows))
    IN [columns |-> t.columns,
        rows |-> [k \in 1..Len(idx) |-> t.rows[idx[k]]]]

\* df[name] = vals: adds the column, or replaces it when it exists.
SetColumn(t, name, vals) ==
    [columns |-> t.columns \cup {name},
     rows |-> [i \in 1..Len(t.rows) |->
                 [c \in DOMAIN t.rows[i] \cup {name} |->
                     IF c = name THEN vals[i] ELSE t.rows[i][c]]]]

\* ------------------------------------------------------------------ inputs
\* The CSV contents the two sources can hold.  Four families: short tables
\* in which every field varies, long tables that hold a series of at least
\* WINDOW rows, two-row tables that lack some of the columns, and series
\* that already carry columns named like the derived ones.
CountValueColumns == BaseColumns \ {"location", "date"}

DataLocations == {"India", "Wakanda"}

Days == {1, 2}

\* The measures of one short-family row.
Profiles ==
    { [total_cases |-> Num(5), total_deaths |-> Num(1), new_cases |-> Num(1),
       new_deaths |-> Num(0), total_vaccinations |-> Num(8),
       people_vaccinated |-> Num(5), people_fully_vaccinated |-> Num(3),
       population |-> Num(1000)],
      [total_cases |-> Num(5), total_deaths |-> NaN, new_cases |-> NaN,
       new_deaths |-> NaN, total_vaccinations |-> NaN,
       people_vaccinated |-> NaN, people_fully_vaccinated |-> NaN,
       population |-> Num(1000)],
      [total_cases |-> NaN, total_deaths |-> Num(1), new_cases |-> Num(2),
       new_deaths |-> Num(1), total_vaccinations |-> Num(8),
       people_vaccinated |-> Num(5), people_fully_vaccinated |-> NaN,
       population |-> Num(1000)],
      [total_cases |-> Num(0), total_deaths |-> Num(0), new_cases |-> Num(0),
       new_deaths |-> Num(0), total_vaccinations |-> NaN,
       people_vaccinated |-> Num(5), people_fully_vaccinated |-> Num(3),
       population |-> Num(1000)],
      [total_cases |-> Num(0), total_deaths |-> Num(1), new_cases |-> NaN,
       new_deaths |-> Num(1), total_vaccinations |-> Num(9),
       people_vaccinated |-> Num(6), people_fully_vaccinated |-> Num(4),
       population |-> NaN] }

CsvRow(loc, day, p) ==
    [c \in BaseColumns |->
        IF c = "location" THEN loc
        ELSE IF c = "date" THEN Num(day)
        ELSE p[c]]

ShortRows == {CsvRow(loc, d, p) : loc \in DataLocations, d \in Days, p \in Profiles}

ShortTables ==
    UNION {[1..n -> ShortRows] : n \in 0..MaxShort}

\* A series of n rows: row i reports i new cases on day i for India, except
\* that row k (if any) belongs to Kenya, row m (if any) has no new_cases and
\* no new_deaths, and rows s and s+1 (if any) come in reverse date order.
LongRow(i, k, m, s) ==
    [c \in BaseColumns |->
        IF c = "location" THEN (IF i = k THEN "Kenya" ELSE "India")
        ELSE IF c = "date" THEN
            Num(IF s # 0 /\ i = s THEN i + 1 ELSE IF s # 0 /\ i = s + 1 THEN i - 1 ELSE i)
        ELSE IF c \in {"new_cases", "new_deaths"} THEN
            (IF i = m THEN NaN ELSE IF c = "new_cases" THEN Num(i) ELSE Num(i % 3))
        ELSE IF c = "total_cases" THEN Num(10 * i)
        ELSE IF c = "total_deaths" THEN Num(i)
        ELSE IF c = "population" THEN Num(1000)
        ELSE Num(i)]

LongTables ==
    {[i \in 1..n |-> LongRow(i, k, m, s)] :
        <<n, k, m, s>> \in {q \in (WINDOW..MaxLong) \X (0..MaxLong) \X (0..MaxLong) \X (0..MaxLong) :
                               q[2] <= q[1] /\ q[3] <= q[1] /\ q[4] < q[1]}}

\* Two complete rows under a column set that lacks up to MaxDropped of the
\* value columns.
ColumnSets ==
    {BaseColumns \ d : d \in {x \in SUBSET CountValueColumns : Cardinality(x) <= MaxDropped}}

FullProfile ==
    [total_cases |-> Num(5), total_deaths |-> Num(1), new_cases |-> Num(1),
     new_deaths |-> Num(0), total_vaccinations |-> Num(8),
     people_vaccinated |-> Num(5), people_fully_vaccinated |-> Num(3),
     population |-> Num(1000)]

ColumnRows == <<CsvRow("India", 1, FullProfile), CsvRow("Kenya", 2, FullProfile)>>

\* The names the notebook gives to the columns it derives.  A source feed may
\* carry columns of these names already: a series of WINDOW rows with every
\* base column and some of them, each holding SourceValue.
DerivedNames ==
    {"death_rate", "cases_per_million", "deaths_per_million",
     "new_cases_smoothed", "new_deaths_smoothed"}

SourceValue == Num(99)

DerivedNameRows(extra) ==
    [i \in 1..WINDOW |->
        [c \in BaseColumns \cup extra |->
            IF c \in BaseColumns THEN LongRow(i, 0, 0, 0)[c] ELSE SourceValue]]

DerivedNameFrames ==
    {ReadCsv(BaseColumns \cup extra, DerivedNameRows(extra)) :
        extra \in SUBSET DerivedNames \ {{}}}

InputFrames ==
    {ReadCsv(BaseColumns, rs) : rs \in ShortTables \cup LongTables}
        \cup {ReadCsv(cols, ColumnRows) : cols \in ColumnSets}
        \cup DerivedNameFrames

\* ------------------------------------------------------------------ state
VARIABLES
    pc,             \* the cell that is run next
    ns,             \* the names assigned in the kernel
    outcome,        \* per cell: "notrun", "ok" or the exception it raised
    attempts,       \* the reads the loading cell made, in order
    printed,        \* what the loading cell printed
    df, df_countries, complete_cases, df_clean, vax_data, df_vax,
    report,         \* the counts and percentages the filter cells printed
    total_lines,    \* the countries plotted by the total-cases cell
    million_lines,  \* per-million column -> the countries its cell plotted
    daily,          \* country -> the country_data plotted by the daily cell
    latest_data,
    waves           \* country -> the country_data plotted by the waves cell

vars ==
    <<pc, ns, outcome, attempts, printed, df, df_countries, complete_cases,
      df_clean, vax_data, df_vax, report, total_lines, million_lines, daily, latest_data, waves>>

Cells ==
    <<"load", "head", "to_datetime", "scope", "missing", "complete", "vax",
      "derive", "total", "cases_pm", "deaths_pm", "daily", "latest", "waves">>

CellSet == {Cells[i] : i \in 1..Len(Cells)}

countries_of_interest ==
    {"United States", "India", "Brazil", "United Kingdom", "Germany",
     "South Africa", "Japan", "Australia", "Kenya"}

selected_countries ==
    {"United States", "India", "United Kingdom", "Germany", "South Africa"}

key_columns ==
    {"total_cases", "new_cases", "total_deaths", "new_deaths",
     "total_vaccinations", "people_vaccinated", "people_fully_vaccinated"}

vax_columns ==
    {"total_vaccinations", "people_vaccinated", "people_fully_vaccinated"}

Init ==
    /\ pc = "load"
    /\ ns = {}
    /\ outcome = [c \in CellSet |-> "notrun"]
    /\ attempts = <<>>
    /\ printed = <<>>
    /\ df = NoFrame
    /\ df_countries = NoFrame
    /\ complete_cases = NoFrame
    /\ df_clean = NoFrame
    /\ vax_data = NoFrame
    /\ df_vax = NoFrame
    /\ report = <<>>
    /\ total_lines = {}
    /\ million_lines = <<>>
    /\ daily = <<>>
    /\ latest_data = NoFrame
    /\ waves = <<>>

\* The cell ends with `result` and the next cell is run.
Finish(cell, next, result) ==
    /\ pc' = next
    /\ outcome' = [outcome EXCEPT ![cell] = result]

\* ------------------------------------------------------------------ loading
RemoteResults == {"ok", "network_error", "malformed_response", "timeout"}

LocalResults == {"ok", "file_not_found"}

\* Seeded fault: the local read outside the except clause.
ReadOrderAlwaysBoth(r) == <<"remote", "local">>

\* The reads the try/except makes when the fetch of the URL ends in r: every
\* exception of the first read_csv is caught and leads to the local read.
ReadOrder(r) == IF r = "ok" THEN <<"remote">> ELSE <<"remote", "local">>

Shape(t) == <<Len(t.rows), Cardinality(t.columns)>>

Load ==
    /\ pc = "load"
    /\ \E r \in RemoteResults :
        /\ attempts' = ReadOrder(r)
        /\ IF r = "ok"
           THEN \E t \in InputFrames :
                /\ df' = t
                /\ ns' = ns \cup {"df"}
                /\ printed' = <<[msg |-> "loaded from URL", arg |-> Shape(t)]>>
           ELSE \E l \in LocalResults :
                IF l = "ok"
                THEN \E t \in InputFrames :
                     /\ df' = t
                     /\ ns' = ns \cup {"df"}
                     /\ printed' = <<[msg |-> "Error loading data from URL", arg |-> r],
                                      [msg |-> "loaded from local file", arg |-> Shape(t)]>>
                ELSE /\ UNCHANGED <<df, ns>>
                     /\ printed' = <<[msg |-> "Error loading data from URL", arg |-> r],
                                      [msg |-> "Error loading data from local file", arg |-> l]>>
    /\ Finish("load", "head", "ok")
    /\ UNCHANGED <<df_countries, complete_cases, df_clean, vax_data, df_vax,
                   report, total_lines, million_lines, daily, latest_data, waves>>

\* ------------------------------------------------------------------ exploration
Explore ==
    /\ pc = "head"
    /\ Finish("head", "to_datetime", IF "df" \in ns THEN "ok" ELSE "NameError")
    /\ UNCHANGED <<ns, attempts, printed, df, df_countries, complete_cases,
                   df_clean, vax_data, df_vax, report, total_lines, million_lines, daily,
                   latest_data, waves>>

\* df['date'] = pd.to_datetime(df['date']): the dates are held as day
\* ordinals, which the conversion keeps.
ToDatetime ==
    /\ pc = "to_datetime"
    /\ Finish("to_datetime", "scope",
              IF "df" \notin ns THEN "NameError"
              ELSE IF "date" \notin df.columns THEN "KeyError" ELSE "ok")
    /\ UNCHANGED <<ns, attempts, printed, df, df_countries, complete_cases,
                   df_clean, vax_data, df_vax, report, total_lines, million_lines, daily,
                   latest_data, waves>>

\* ------------------------------------------------------------------ scoping
\* Seeded fault: the isin mask dropped.
ScopeKeepsAll(t, names) == t

\* df[df['location'].isin(names)].copy()

ScopeToEntities(t, names) ==
    BoolIndex(t, [i \in 1..Len(t.rows) |-> t.rows[i]["location"] \in names])

Scope ==
    /\ pc = "scope"
    /\ IF "df" \notin ns THEN
            /\ Finish("scope", "missing", "NameError")
            /\ UNCHANGED <<ns, df_countries>>
       ELSE IF "location" \notin df.columns THEN
            /\ Finish("scope", "missing", "KeyError")
            /\ UNCHANGED <<ns, df_countries>>
       ELSE /\ df_countries' = ScopeToEntities(df, countries_of_interest)
            /\ ns' = ns \cup {"df_countries"}
            /\ Finish("scope", "missing", "ok")
    /\ UNCHANGED <<attempts, printed, df, complete_cases, df_clean, vax_data,
                   df_vax, report, total_lines, million_lines, daily, latest_data, waves>>

\* df_countries.groupby('location')[key_columns].isnull().sum(): selecting the
\* key columns raises KeyError when one is absent, and a DataFrameGroupBy has
\* no isnull method.
MissingByCountry ==
    /\ pc = "missing"
    /\ Finish("missing", "complete",
              IF "df_countries" \notin ns THEN "NameError"
              ELSE IF ~(key_columns \subseteq df_countries.columns) THEN "KeyError"
              ELSE "AttributeError")
    /\ UNCHANGED <<ns, attempts, printed, df, df_countries, complete_cases,
                   df_clean, vax_data, df_vax, report, total_lines, million_lines, daily,
                   latest_data, waves>>

\* ------------------------------------------------------------------ completeness
\* Seeded fault: dropna(how='all').
DropNaHowAll(t, subset) ==
    BoolIndex(t, [i \in 1..Len(t.rows) |-> \E c \in subset : ~IsNaN(t.rows[i][c])])

\* t.dropna(subset=subset): how='any', a row goes when one of the subset's
\* values is missing.
DropNa(t, subset) ==
    BoolIndex(t, [i \in 1..Len(t.rows) |-> \A c \in subset : ~IsNaN(t.rows[i][c])])

\* len(a)/len(b)*100 of the report line, for len(b) > 0.
Percent(a, b) == FloatScale(Frac(Len(a.rows), Len(b.rows)), 100)

CompleteCases ==
    /\ pc = "complete"
    /\ IF "df_countries" \notin ns THEN
            /\ Finish("complete", "vax", "NameError")
            /\ UNCHANGED <<ns, complete_cases, df_clean, report>>
       ELSE IF ~({"total_cases", "total_deaths"} \subseteq df_countries.columns) THEN
            /\ Finish("complete", "vax", "KeyError")
            /\ UNCHANGED <<ns, complete_cases, df_clean, report>>
       ELSE LET kept == DropNa(df_countries, {"total_cases", "total_deaths"}) IN
            /\ complete_cases' = kept
            /\ IF Len(df_countries.rows) = 0 THEN
                    /\ Finish("complete", "vax", "ZeroDivisionError")
                    /\ ns' = ns \cup {"complete_cases"}
                    /\ UNCHANGED <<df_clean, report>>
               ELSE /\ Finish("complete", "vax", "ok")
                    /\ report' = Append(report,
                            [of |-> "cases", kept |-> Len(kept.rows),
                             total |-> Len(df_countries.rows),
                             pct |-> Percent(kept, df_countries)])
                    /\ df_clean' = kept
                    /\ ns' = ns \cup {"complete_cases", "df_clean"}
    /\ UNCHANGED <<attempts, printed, df, df_countries, vax_data, df_vax,
                   total_lines, million_lines, daily, latest_data, waves>>

VaxData ==
    /\ pc = "vax"
    /\ IF "df" \notin ns THEN
            /\ Finish("vax", "derive", "NameError")
            /\ UNCHANGED <<ns, vax_data, df_vax, report>>
       ELSE LET vax_columns_available == vax_columns \cap df.columns IN
            IF vax_columns_available = {} THEN
                /\ Finish("vax", "derive", "ok")
                /\ df_vax' = NoFrame
                /\ ns' = ns \cup {"df_vax"}
                /\ UNCHANGED <<vax_data, report>>
            ELSE IF "df_countries" \notin ns THEN
                /\ Finish("vax", "derive", "NameError")
                /\ UNCHANGED <<ns, vax_data, df_vax, report>>
            ELSE LET kept == DropNa(df_countries, vax_columns_available) IN
                /\ vax_data' = kept
                /\ IF Len(df_countries.rows) = 0 THEN
                        /\ Finish("vax", "derive", "ZeroDivisionError")
                        /\ ns' = ns \cup {"vax_data"}
                        /\ UNCHANGED <<df_vax, report>>
                   ELSE /\ Finish("vax", "derive", "ok")
                        /\ report' = Append(report,
                                [of |-> "vaccination", kept |-> Len(kept.rows),
                                 total |-> Len(df_countries.rows),
                                 pct |-> Percent(kept, df_countries)])
                        /\ df_vax' = kept
                        /\ ns' = ns \cup {"vax_data", "df_vax"}
    /\ UNCHANGED <<attempts, printed, df, df_countries, complete_cases, df_clean,
                   total_lines, million_lines, daily, latest_data, waves>>

\* ------------------------------------------------------------------ derivation
\* (t[num] / t[den]) * k, row by row.
Ratio(t, num, den, k) ==
    [i \in 1..Len(t.rows) |->
        FloatScale(FloatDiv(t.rows[i][num], t.rows[i][den]), k)]

\* Seeded fault: without population the per-million columns are filled with
\* NaN instead of being left out.
DeriveMetricsSentinelFilled(t) ==
    LET rate == Ratio(t, "total_deaths", "total_cases", 100)
        withRate == SetColumn(t, "death_rate", rate)
        nans == [i \in 1..Len(t.rows) |-> NaN]
        cpm == IF "population" \in t.columns
               THEN Ratio(withRate, "total_cases", "population", 1000000) ELSE nans
        dpm == IF "population" \in t.columns
               THEN Ratio(withRate, "total_deaths", "population", 1000000) ELSE nans
    IN SetColumn(SetColumn(withRate, "cases_per_million", cpm),
                 "deaths_per_million", dpm)

DeriveMetrics(t) ==
    LET rate == Ratio(t, "total_deaths", "total_cases", 100)
        withRate == SetColumn(t, "death_rate", rate)
    IN IF "population" \in withRate.columns
       THEN LET cpm == Ratio(withRate, "total_cases", "population", 1000000)
                dpm == Ratio(withRate, "total_deaths", "population", 1000000)
                withCases == SetColumn(withRate, "cases_per_million", cpm)
            IN SetColumn(withCases, "deaths_per_million", dpm)
       ELSE withRate

Derive ==
    /\ pc = "derive"
    /\ IF "df_clean" \notin ns THEN
            /\ Finish("derive", "total", "NameError")
            /\ UNCHANGED df_clean
       ELSE /\ Finish("derive", "total", "ok")
            /\ df_clean' = DeriveMetrics(df_clean)
    /\ UNCHANGED <<ns, attempts, printed, df, df_countries, complete_cases,
                   vax_data, df_vax, report, total_lines, million_lines, daily, latest_data, waves>>

\* ------------------------------------------------------------------ entity partitions
\* Seeded fault: the window run over the whole table.
CountryDataWholeTable(t, country) == t

\* df_clean[df_clean['location'] == country]

CountryData(t, country) ==
    BoolIndex(t, [i \in 1..Len(t.rows) |-> t.rows[i]["location"] = country])

TotalCasesPlot ==
    /\ pc = "total"
    /\ IF "df_clean" \notin ns THEN
            /\ Finish("total", "cases_pm", "NameError")
            /\ UNCHANGED total_lines
       ELSE /\ Finish("total", "cases_pm", "ok")
            /\ total_lines' =
                    {c \in countries_of_interest : CountryData(df_clean, c).rows # <<>>}
    /\ UNCHANGED <<ns, attempts, printed, df, df_countries, complete_cases,
                   df_clean, vax_data, df_vax, report, million_lines, daily,
                   latest_data, waves>>

\* The cases-per-million and deaths-per-million cells: the plot is made
\* only when the derived column exists.
PerMillionLines(col) ==
    IF col \in df_clean.columns
    THEN [c \in DOMAIN million_lines \cup {col} |->
            IF c = col
            THEN {x \in countries_of_interest : CountryData(df_clean, x).rows # <<>>}
            ELSE million_lines[c]]
    ELSE million_lines

CasesPerMillionPlot ==
    /\ pc = "cases_pm"
    /\ IF "df_clean" \notin ns THEN
            /\ Finish("cases_pm", "deaths_pm", "NameError")
            /\ UNCHANGED million_lines
       ELSE /\ Finish("cases_pm", "deaths_pm", "ok")
            /\ million_lines' = PerMillionLines("cases_per_million")
    /\ UNCHANGED <<ns, attempts, printed, df, df_countries, complete_cases,
                   df_clean, vax_data, df_vax, report, total_lines, daily,
                   latest_data, waves>>

DeathsPerMillionPlot ==
    /\ pc = "deaths_pm"
    /\ IF "df_clean" \notin ns THEN
            /\ Finish("deaths_pm", "daily", "NameError")
            /\ UNCHANGED million_lines
       ELSE /\ Finish("deaths_pm", "daily", "ok")
            /\ million_lines' = PerMillionLines("deaths_per_million")
    /\ UNCHANGED <<ns, attempts, printed, df, df_countries, complete_cases,
                   df_clean, vax_data, df_vax, report, total_lines, daily,
                   latest_data, waves>>

\* ------------------------------------------------------------------ rolling averages
FloatAdd(x, y) ==
    IF IsNaN(x) \/ IsNaN(y) THEN NaN
    ELSE IF x[2] = 0 \/ y[2] = 0 THEN Inf
    ELSE Frac(x[1] * y[2] + y[1] * x[2], x[2] * y[2])

RECURSIVE WindowSum(_, _, _)
WindowSum(vals, lo, hi) ==
    IF lo > hi THEN Num(0) ELSE FloatAdd(WindowSum(vals, lo, hi - 1), vals[hi])

\* Seeded fault: rolling(window=w, min_periods=1).
RollingMeanMinPeriods1(vals, w) ==
    [i \in 1..Len(vals) |->
        LET lo == IF i < w THEN 1 ELSE i - w + 1
            have == {j \in lo..i : ~IsNaN(vals[j])}
        IN IF have = {} THEN NaN
           ELSE FloatDiv(WindowSum([j \in 1..i |-> IF j \in have THEN vals[j] ELSE Num(0)], lo, i),
                         Num(Cardinality(have)))]

\* Series.rolling(window=w).mean(): min_periods defaults to w, so an entry is
\* NaN unless the w rows ending at it all hold a value.
RollingMean(vals, w) ==
    [i \in 1..Len(vals) |->
        IF i < w \/ \E j \in (i - w + 1)..i : IsNaN(vals[j])
        THEN NaN
        ELSE FloatDiv(WindowSum(vals, i - w + 1, i), Num(w))]

\* country_data[dst] = country_data[src].rolling(window=7).mean()
Smoothed(cd, src, dst) ==
    LET mean == RollingMean([i \in 1..Len(cd.rows) |-> cd.rows[i][src]], WINDOW)
    IN SetColumn(cd, dst, mean)

DailyNewCases ==
    /\ pc = "daily"
    /\ IF "df_clean" \notin ns THEN
            /\ Finish("daily", "latest", "NameError")
            /\ UNCHANGED daily
       ELSE /\ Finish("daily", "latest", "ok")
            /\ daily' =
                [c \in {x \in countries_of_interest :
                            /\ CountryData(df_clean, x).rows # <<>>
                            /\ "new_cases" \in df_clean.columns} |->
                    Smoothed(CountryData(df_clean, c), "new_cases", "new_cases_smoothed")]
    /\ UNCHANGED <<ns, attempts, printed, df, df_countries, complete_cases,
                   df_clean, vax_data, df_vax, report, total_lines, million_lines, latest_data, waves>>

\* ------------------------------------------------------------------ latest per entity
\* Ascending order of sort_values: a missing key sorts last.
KeyLess(a, b) ==
    /\ ~IsNaN(a)
    /\ IsNaN(b) \/ a[1] * b[2] < b[1] * a[2]

\* The row orders sort_values(col) can return.  Its default sort (quicksort)
\* is not stable, so rows with equal keys may come out in any order.
RECURSIVE SortedOrders(_, _, _)
SortedOrders(t, col, S) ==
    IF S = {} THEN {<<>>}
    ELSE LET firsts == {i \in S : \A j \in S :
                            ~KeyLess(t.rows[j][col], t.rows[i][col])}
         IN UNION {{<<i>> \o rest : rest \in SortedOrders(t, col, S \ {i})} : i \in firsts}

\* The group keys of groupby('location'), which sorts them.
SortedCountries ==
    <<"Australia", "Brazil", "Germany", "India", "Japan", "Kenya",
      "South Africa", "United Kingdom", "United States">>

\* GroupBy.last() of one column: the last value that is not missing.
RECURSIVE LastValid(_)
LastValid(vals) ==
    IF vals = <<>> THEN NaN
    ELSE IF ~IsNaN(vals[Len(vals)]) THEN vals[Len(vals)]
    ELSE LastValid(SubSeq(vals, 1, Len(vals) - 1))

\* t.groupby('location').last().reset_index() for rows already ordered.
GroupLast(t) ==
    LET keys == SelectIdx([k \in 1..Len(SortedCountries) |->
                              CountryData(t, SortedCountries[k]).rows # <<>>],
                          Len(SortedCountries))
    IN [columns |-> t.columns,
        rows |-> [g \in 1..Len(keys) |->
            LET grp == CountryData(t, SortedCountries[keys[g]]).rows
            IN [c \in t.columns \cup {"index"} |->
                    IF c = "index" THEN g - 1
                    ELSE IF c = "location" THEN SortedCountries[keys[g]]
                    ELSE LastValid([i \in 1..Len(grp) |-> grp[i][c]])]]]

LatestData ==
    /\ pc = "latest"
    /\ IF "df_clean" \notin ns THEN
            /\ Finish("latest", "waves", "NameError")
            /\ UNCHANGED <<ns, latest_data>>
       ELSE \E order \in SortedOrders(df_clean, "date", 1..Len(df_clean.rows)) :
            /\ latest_data' =
                    GroupLast([columns |-> df_clean.columns,
                               rows |-> [k \in 1..Len(order) |-> df_clean.rows[order[k]]]])
            /\ ns' = ns \cup {"latest_data"}
            /\ Finish("latest", "waves",
                      IF "death_rate" \in df_clean.columns THEN "ok" ELSE "KeyError")
    /\ UNCHANGED <<attempts, printed, df, df_countries, complete_cases, df_clean,
                   vax_data, df_vax, report, total_lines, million_lines, daily, waves>>

\* ------------------------------------------------------------------ waves
WavesPlot ==
    /\ pc = "waves"
    /\ IF "df_clean" \notin ns THEN
            /\ Finish("waves", "done", "NameError")
            /\ UNCHANGED waves
       ELSE /\ Finish("waves", "done", "ok")
            /\ waves' =
                [c \in {x \in selected_countries :
                            /\ CountryData(df_clean, x).rows # <<>>
                            /\ "new_cases" \in df_clean.columns} |->
                    LET cases == Smoothed(CountryData(df_clean, c),
                                          "new_cases", "new_cases_smoothed")
                    IN IF "new_deaths" \in cases.columns
                       THEN Smoothed(cases, "new_deaths", "new_deaths_smoothed")
                       ELSE cases]
    /\ UNCHANGED <<ns, attempts, printed, df, df_countries, complete_cases,
                   df_clean, vax_data, df_vax, report, total_lines, million_lines, daily, latest_data>>

Next ==
    \/ Load
    \/ Explore
    \/ ToDatetime
    \/ Scope
    \/ MissingByCountry
    \/ CompleteCases
    \/ VaxData
    \/ Derive
    \/ TotalCasesPlot
    \/ CasesPerMillionPlot
    \/ DeathsPerMillionPlot
    \/ DailyNewCases
    \/ LatestData
    \/ WavesPlot

Spec == Init /\ [][Next]_vars

\* ================================================================== claims
Ran(cell) == outcome[cell] # "notrun"

RangeOf(f) == {f[i] : i \in DOMAIN f}

Count(f, x) == Cardinality({i \in DOMAIN f : f[i] = x})

RemoteFailed == printed # <<>> /\ printed[1].msg = "Error loading data from URL"

BothLoadsFailed ==
    /\ Len(printed) = 2
    /\ printed[2].msg = "Error loading data from local file"

\* C1: when the remote fetch and the local read both fail, the loading cell
\* ends in an IngestionError that carries both causes, and no later cell
\* (exploration, scoping, filtering, derivation) is run.
C1_IngestionErrorHalts ==
    BothLoadsFailed =>
        /\ outcome["load"] = "IngestionError"
        /\ {printed[1].arg} \subseteq RemoteResults \ {"ok"}
        /\ {printed[2].arg} \subseteq LocalResults \ {"ok"}
        /\ \A c \in CellSet \ {"load"} : ~Ran(c)

\* C2: the loading cell reads the URL first and exactly once, reads the local
\* file at most once and exactly when the URL read failed (whatever the
\* failure), never reads the local file after a remote success, and retries
\* nothing.
C2_ReadOrder ==
    IF ~Ran("load") THEN attempts = <<>>
    ELSE /\ attempts[1] = "remote"
         /\ Count(attempts, "remote") = 1
         /\ Count(attempts, "local") <= 1
         /\ RangeOf(attempts) \subseteq {"remote", "local"}
         /\ "local" \in RangeOf(attempts) <=> RemoteFailed
         /\ printed[1].msg = "loaded from URL" => attempts = <<"remote">>

\* C2 witness: the URL read timed out, the local file was read once and gave
\* the table.
C2_Witness ==
    /\ Ran("load")
    /\ attempts = <<"remote", "local">>
    /\ printed[1].arg = "timeout"
    /\ "df" \in ns

\* out holds exactly the rows `wanted` of inp: same columns, every row
\* unaltered and in the input's order, no row twice, none missing.
ExactlyTheRows(out, inp, wanted) ==
    /\ out.columns = inp.columns
    /\ wanted \subseteq RangeOf(inp.rows)
    /\ RangeOf(out.rows) = wanted
    /\ \A i, j \in DOMAIN out.rows :
        i < j => out.rows[i]["index"] < out.rows[j]["index"]

\* The rows of t in which every required column holds a value.
RowsWithAll(t, required) ==
    {r \in RangeOf(t.rows) : \A c \in required : r[c] # NaN}

\* C3: completeness filtering returns exactly the input rows in which every
\* required column is non-null, for the case/death filter and for the
\* vaccination filter; no row is added or altered.
C3_FilterComplete ==
    /\ "complete_cases" \in ns =>
        ExactlyTheRows(complete_cases, df_countries,
                       RowsWithAll(df_countries, {"total_cases", "total_deaths"}))
    /\ "df_clean" \in ns /\ ~Ran("derive") => df_clean = complete_cases
    /\ "vax_data" \in ns =>
        ExactlyTheRows(vax_data, df_countries,
                       RowsWithAll(df_countries, vax_columns \cap df.columns))
    /\ "df_vax" \in ns /\ vax_columns \cap df.columns # {} => df_vax = vax_data

\* C3 witness: the scoped rows are [{total_cases: 5, total_deaths: null},
\* {total_cases: 5, total_deaths: 1}] and the filter kept exactly the second.
C3_Witness ==
    /\ "complete_cases" \in ns
    /\ Len(df_countries.rows) = 2
    /\ df_countries.rows[1]["total_cases"] = Num(5)
    /\ df_countries.rows[1]["total_deaths"] = NaN
    /\ df_countries.rows[2]["total_cases"] = Num(5)
    /\ df_countries.rows[2]["total_deaths"] = Num(1)
    /\ complete_cases.rows = <<df_countries.rows[2]>>
    /\ "vax_data" \in ns

\* C4: scoping returns exactly the rows whose location is one of the entity
\* names, with all columns; a name that occurs in no row contributes no row,
\* and a table with none of the names scopes to zero rows without an error.
C4_ScopeToEntities ==
    /\ "df_countries" \in ns =>
        /\ ExactlyTheRows(df_countries, df,
                          {r \in RangeOf(df.rows) : r["location"] \in countries_of_interest})
        /\ \A e \in countries_of_interest :
            (\A i \in DOMAIN df.rows : df.rows[i]["location"] # e)
                => \A i \in DOMAIN df_countries.rows :
                        df_countries.rows[i]["location"] # e
    /\ Ran("scope") /\ "df" \in ns /\ "location" \in df.columns =>
        /\ outcome["scope"] = "ok"
        /\ "df_countries" \in ns

\* C4 witness: the table has rows, none of a requested entity, and scoping
\* gave a zero-row table with every column.
C4_Witness ==
    /\ outcome["scope"] = "ok"
    /\ Len(df.rows) = 2
    /\ \A i \in DOMAIN df.rows : df.rows[i]["location"] = "Wakanda"
    /\ df_countries.rows = <<>>
    /\ df_countries.columns = BaseColumns

\* C5: with every column present, the cells after scoping run without an
\* error whenever a requested entity has no rows, also when none has any.
C5_ZeroRowPartitionsTolerated ==
    /\ outcome["scope"] = "ok"
    /\ BaseColumns \subseteq df.columns
    /\ \E e \in countries_of_interest :
        \A i \in DOMAIN df_countries.rows : df_countries.rows[i]["location"] # e
    => \A c \in {"complete", "vax", "derive", "total", "daily", "latest", "waves"} :
            outcome[c] \in {"notrun", "ok"}

\* C6: death_rate is NaN exactly when total_cases = 0 and otherwise equals
\* total_deaths / total_cases * 100; derivation raises nothing.
C6_DeathRate ==
    "df_clean" \in ns /\ Ran("derive") =>
        /\ outcome["derive"] = "ok"
        /\ \A i \in DOMAIN df_clean.rows :
            LET r == df_clean.rows[i] IN
            /\ r["death_rate"] = NaN <=> r["total_cases"] = Num(0)
            /\ r["total_cases"] # Num(0) =>
                r["death_rate"][1] * r["total_cases"][1]
                    = 100 * r["total_deaths"][1] * r["death_rate"][2]

\* Sum of the integer values f[i] over i in S.
RECURSIVE SumOver(_, _)
SumOver(f, S) ==
    IF S = {} THEN 0
    ELSE LET i == CHOOSE x \in S : TRUE IN f[i][1] + SumOver(f, S \ {i})

\* v is the mean of the src values of rows lo..hi of part.
IsMeanOf(v, part, src, lo, hi) ==
    /\ v[2] > 0
    /\ v[1] * (hi - lo + 1)
         = v[2] * SumOver([j \in lo..hi |-> part.rows[j][src]], lo..hi)

Finite(v) == v[2] > 0

DateSorted(part) ==
    \A i, j \in DOMAIN part.rows :
        i < j => part.rows[i]["date"][1] <= part.rows[j]["date"][1]

\* The smoothed partitions handed to the charts: the daily cell's, and the
\* waves cell's for both of its columns.
SmoothedSeries ==
    {[entity |-> c, part |-> daily[c], src |-> "new_cases",
      dst |-> "new_cases_smoothed"] : c \in DOMAIN daily}
        \cup {[entity |-> c, part |-> waves[c], src |-> "new_cases",
               dst |-> "new_cases_smoothed"] : c \in DOMAIN waves}
        \cup {[entity |-> c, part |-> waves[c], src |-> "new_deaths",
               dst |-> "new_deaths_smoothed"] :
                c \in {x \in DOMAIN waves : "new_deaths" \in waves[x].columns}}

\* C7: each entity's date-ordered new_cases_smoothed has WINDOW - 1 leading
\* NaN entries followed only by finite values, each the mean of the trailing
\* WINDOW new_cases values, whatever the partition's length and values.
\* Stated for the partitions whose rows are already in date order, where the
\* date-ordered sequence is the sequence the cell computed.
C7_SmoothedLeadingNaNThenMeans ==
    \A c \in DOMAIN daily :
        LET part == daily[c] IN
        DateSorted(part) =>
            \A i \in DOMAIN part.rows :
                IF i < WINDOW
                THEN part.rows[i]["new_cases_smoothed"] = NaN
                ELSE /\ Finite(part.rows[i]["new_cases_smoothed"])
                     /\ IsMeanOf(part.rows[i]["new_cases_smoothed"], part,
                                 "new_cases", i - WINDOW + 1, i)

\* C7 as amended: in the partition's row order, an entry is NaN when fewer
\* than WINDOW rows end at it or one of the WINDOW raw values ending at it is
\* missing, and is otherwise the mean of those WINDOW values.
C7_SmoothedInRowOrder ==
    \A s \in SmoothedSeries :
        LET part == s.part
            src == s.src
            dst == s.dst
        IN \A i \in DOMAIN part.rows :
            IF i < WINDOW \/ \E j \in (i - WINDOW + 1)..i : part.rows[j][src] = NaN
            THEN part.rows[i][dst] = NaN
            ELSE IsMeanOf(part.rows[i][dst], part, src, i - WINDOW + 1, i)

\* C7 witness: an entity with WINDOW + 1 rows whose first new_cases is
\* missing: entry WINDOW is NaN beyond the leading ones, entry WINDOW + 1 is a
\* finite mean.
C7_Witness ==
    \E c \in DOMAIN daily :
        /\ Len(daily[c].rows) = WINDOW + 1
        /\ daily[c].rows[1]["new_cases"] = NaN
        /\ daily[c].rows[WINDOW]["new_cases_smoothed"] = NaN
        /\ Finite(daily[c].rows[WINDOW + 1]["new_cases_smoothed"])

\* C8: every partition over which a window is computed has been put in
\* ascending date order first, whatever the order of the source rows.
C8_WindowsInDateOrder ==
    \A s \in SmoothedSeries :
        Len(s.part.rows) >= WINDOW => DateSorted(s.part)

\* The positions of t whose row belongs to entity e, up to position p.
OwnUpTo(t, e, p) == {q \in 1..p : t.rows[q]["location"] = e}

\* The last WINDOW positions of entity e in t at or before position p.
OwnWindow(t, e, p) ==
    {q \in OwnUpTo(t, e, p) :
        Cardinality({x \in OwnUpTo(t, e, p) : x >= q}) <= WINDOW}

PositionOf(t, label) == CHOOSE q \in DOMAIN t.rows : t.rows[q]["index"] = label

\* C9: every smoothed value of an entity is computed only from rows of that
\* entity: each partition holds exactly the entity's rows of the filtered
\* table, and a value that is not NaN is the mean over the entity's own last
\* WINDOW rows of that table.
C9_NoBlending ==
    \A s \in SmoothedSeries :
        /\ Len(s.part.rows)
             = Cardinality(OwnUpTo(df_clean, s.entity, Len(df_clean.rows)))
        /\ \A i \in DOMAIN s.part.rows :
            LET r == s.part.rows[i]
                p == PositionOf(df_clean, r["index"])
                own == OwnWindow(df_clean, s.entity, p)
            IN /\ r["location"] = s.entity
               /\ \A col \in df_clean.columns \ {"new_cases_smoothed", "new_deaths_smoothed"} :
                    r[col] = df_clean.rows[p][col]
               /\ r[s.dst] # NaN =>
                    /\ Cardinality(own) = WINDOW
                    /\ r[s.dst][1] * WINDOW
                         = r[s.dst][2]
                             * SumOver([q \in own |-> df_clean.rows[q][s.src]], own)

\* C9 witness: India has a finite smoothed value whose window spans a Kenya
\* row of the filtered table.
C9_Witness ==
    /\ "India" \in DOMAIN waves
    /\ \E i \in DOMAIN waves["India"].rows :
        /\ Finite(waves["India"].rows[i]["new_cases_smoothed"])
        /\ Finite(waves["India"].rows[i]["new_deaths_smoothed"])
        /\ \E q \in DOMAIN df_clean.rows :
            /\ df_clean.rows[q]["location"] = "Kenya"
            /\ waves["India"].rows[1]["index"] < df_clean.rows[q]["index"]
            /\ df_clean.rows[q]["index"] < waves["India"].rows[i]["index"]

\* The row the latest-per-entity extraction is to return for entity e: of
\* the rows with e's maximum date, the last one in the table's order.
LatestRowOf(t, e) ==
    LET own == OwnUpTo(t, e, Len(t.rows))
        top == {q \in own : \A x \in own : t.rows[x]["date"][1] <= t.rows[q]["date"][1]}
    IN t.rows[CHOOSE q \in top : \A x \in top : x <= q]

\* C10: for every entity with a row, latest_data holds one row whose every
\* field, a NaN death_rate included, comes from the entity's row of maximum
\* date (the last such row in date order when several share it).
C10_LatestFromOneRow ==
    "latest_data" \in ns =>
        \A e \in countries_of_interest :
            OwnUpTo(df_clean, e, Len(df_clean.rows)) # {} =>
                /\ Cardinality({g \in DOMAIN latest_data.rows :
                                   latest_data.rows[g]["location"] = e}) = 1
                /\ \A g \in DOMAIN latest_data.rows :
                    latest_data.rows[g]["location"] = e =>
                        \A col \in df_clean.columns :
                            latest_data.rows[g][col] = LatestRowOf(df_clean, e)[col]

\* v = num / den * k for counts num and den that hold a value, den > 0.
IsScaledRatio(v, num, den, k) ==
    /\ v[2] > 0
    /\ v[1] * den[1] = k * num[1] * v[2]

\* C11: the derived table has cases_per_million and deaths_per_million
\* exactly when the input has a population column.  With population they are
\* total_cases (total_deaths) / population * 1,000,000; without it they are
\* absent from the table and from every row, death_rate is still computed,
\* and the per-million plot cells run without an error and plot nothing.
C11_PerMillionIffPopulation ==
    "df_clean" \in ns /\ Ran("derive") =>
        /\ outcome["derive"] = "ok"
        /\ "death_rate" \in df_clean.columns
        /\ \A col \in {"cases_per_million", "deaths_per_million"} :
            /\ col \in df_clean.columns <=> "population" \in df.columns
            /\ \A i \in DOMAIN df_clean.rows :
                col \in DOMAIN df_clean.rows[i] <=> "population" \in df.columns
        /\ "population" \in df.columns =>
            \A i \in DOMAIN df_clean.rows :
                LET r == df_clean.rows[i] IN
                IF r["population"] = NaN
                THEN r["cases_per_million"] = NaN /\ r["deaths_per_million"] = NaN
                ELSE /\ IsScaledRatio(r["cases_per_million"], r["total_cases"],
                                      r["population"], 1000000)
                     /\ IsScaledRatio(r["deaths_per_million"], r["total_deaths"],
                                      r["population"], 1000000)
        /\ \A cell \in {"cases_pm", "deaths_pm"} : outcome[cell] \in {"notrun", "ok"}
        /\ Ran("cases_pm") =>
            ("cases_per_million" \in DOMAIN million_lines <=> "population" \in df.columns)
        /\ Ran("deaths_pm") =>
            ("deaths_per_million" \in DOMAIN million_lines <=> "population" \in df.columns)

\* C11 witness: a table without population went through derivation and both
\* per-million cells: death_rate is there, the per-million columns are not.
C11_Witness ==
    /\ "population" \notin df.columns
    /\ outcome["derive"] = "ok"
    /\ outcome["deaths_pm"] = "ok"
    /\ million_lines = <<>>
    /\ Len(df_clean.rows) = 2
    /\ df_clean.rows[1]["death_rate"] = Num(20)
    /\ "cases_per_million" \notin df_clean.columns

\* C12: whatever columns the ingested table has, the missing-value report,
\* the case/death filter, the vaccination filter and metric derivation test
\* for a column before they use it, so none of them ends in a missing-column
\* error.
C12_ColumnsCheckedBeforeUse ==
    \A cell \in {"missing", "complete", "vax", "derive"} :
        outcome[cell] # "KeyError"

\* The row of the ingested table that carries the pandas label of r.
SourceRowOf(r) == df.rows[r["index"] + 1]

KeepsSourceValues(t) ==
    \A i \in DOMAIN t.rows :
        \A col \in df.columns :
            t.rows[i][col] = SourceRowOf(t.rows[i])[col]

\* C13: derivation overwrites no base column: every column of the input,
\* also one that bears the name of a derived column, keeps its source values
\* in the derived table and in every entity partition once death_rate, the
\* per-million columns and the rolling averages have been written.
C13_BaseColumnsKept ==
    /\ "df_clean" \in ns => KeepsSourceValues(df_clean)
    /\ \A s \in SmoothedSeries : KeepsSourceValues(s.part)

====
